---- MODULE Spec2Model ----
(***************************************************************************)
(* Amount detection in medical documents: the Extractor (OCRService), the  *)
(* Normalizer, the Classifier and the /api/final pipeline that sequences   *)
(* them.  Texts are sequences of one-character strings; the regular        *)
(* expressions of the source are written as syntax trees and matched by a  *)
(* backtracking matcher that returns the possible match ends in the order  *)
(* a backtracking engine tries them.  Amounts are kept in hundredths.      *)
(***************************************************************************)
EXTENDS Integers, Sequences, FiniteSets, TLC

(***************************************************************************)
(* Characters and strings                                                  *)
(***************************************************************************)
Chars(str) == [i \in 1..Len(str) |-> SubSeq(str, i, i)]

UpperLetters == Chars("ABCDEFGHIJKLMNOPQRSTUVWXYZ")

LowerLetters == Chars("abcdefghijklmnopqrstuvwxyz")

Digits == {"0", "1", "2", "3", "4", "5", "6", "7", "8", "9"}

WordChars == Digits \cup {"_"} \cup {UpperLetters[i] : i \in 1..26} \cup {LowerLetters[i] : i \in 1..26}

WhiteSpace == {" ", "\t", "\n", "\r"}

LowerOf == [c \in {UpperLetters[i] : i \in 1..26} |-> LowerLetters[CHOOSE i \in 1..26 : UpperLetters[i] = c]]

UpperOf == [c \in {LowerLetters[i] : i \in 1..26} |-> UpperLetters[CHOOSE i \in 1..26 : LowerLetters[i] = c]]

ToLower(c) == IF c \in DOMAIN LowerOf THEN LowerOf[c] ELSE c

ToUpper(c) == IF c \in DOMAIN UpperOf THEN UpperOf[c] ELSE c

toLowerCase(s) == [i \in 1..Len(s) |-> ToLower(s[i])]

\* the characters a character of an /i pattern matches
BothCases(S) == {ToLower(c) : c \in S} \cup {ToUpper(c) : c \in S}

SelectChars(s, S) == SelectSeq(s, LAMBDA c : c \in S)

RECURSIVE TrimLeft(_)
TrimLeft(s) == IF s # <<>> /\ Head(s) \in WhiteSpace THEN TrimLeft(Tail(s)) ELSE s

RECURSIVE TrimRight(_)
TrimRight(s) == IF s # <<>> /\ s[Len(s)] \in WhiteSpace THEN TrimRight(SubSeq(s, 1, Len(s) - 1)) ELSE s

trim(s) == TrimRight(TrimLeft(s))

\* String.prototype.includes
includes(s, sub) == \E i \in 0..(Len(s) - Len(sub)) : \A j \in 1..Len(sub) : s[i + j] = sub[j]

(***************************************************************************)
(* Regular expressions: syntax trees and the backtracking matcher          *)
(***************************************************************************)
Unbounded == 0 - 1

Eps == [k |-> "eps"]

WordBoundary == [k |-> "wb"]

Set(S) == [k |-> "set", s |-> S]

Cat(a, b) == [k |-> "cat", a |-> a, b |-> b]

Alt(a, b) == [k |-> "alt", a |-> a, b |-> b]

Rep(a, lo, hi) == [k |-> "rep", a |-> a, lo |-> lo, hi |-> hi]

Opt(a) == Rep(a, 0, 1)

Star(a) == Rep(a, 0, Unbounded)

Plus(a) == Rep(a, 1, Unbounded)

\* the concatenation and the alternation of a sequence of patterns; both
\* are associative, and the tree is built by halves
RECURSIVE CatAll(_)
CatAll(rs) ==
    IF rs = <<>> THEN Eps
    ELSE IF Len(rs) = 1 THEN rs[1]
    ELSE Cat(CatAll(SubSeq(rs, 1, Len(rs) \div 2)), CatAll(SubSeq(rs, Len(rs) \div 2 + 1, Len(rs))))

RECURSIVE AltAll(_)
AltAll(rs) ==
    IF Len(rs) = 1 THEN rs[1]
    ELSE Alt(AltAll(SubSeq(rs, 1, Len(rs) \div 2)), AltAll(SubSeq(rs, Len(rs) \div 2 + 1, Len(rs))))

\* a literal, case-sensitive and under the /i flag
Str(str) == CatAll([i \in 1..Len(str) |-> Set({SubSeq(str, i, i)})])

StrI(str) == CatAll([i \in 1..Len(str) |-> Set(BothCases({SubSeq(str, i, i)}))])

IsWordAt(s, i) == i >= 1 /\ i <= Len(s) /\ s[i] \in WordChars

\* M(r, s, i): the ends (number of characters of s consumed) of the matches
\* of r that start after i characters, in backtracking order
RECURSIVE M(_, _, _)
RECURSIVE MThen(_, _, _)
RECURSIVE MRep(_, _, _, _)
\* the greatest number of a set of numbers
Greatest(S) == CHOOSE c \in S : \A d \in S : c >= d

\* the repetition of a character class: the class is taken as often as it
\* matches, r.hi times at most, and given back one character at a time down
\* to r.lo times
MRun(r, s, i) ==
    LET Ends(top) == IF top < r.lo THEN <<>> ELSE [n \in 1..(top - r.lo + 1) |-> i + top - n + 1]
        Taken(run) == Ends(IF r.hi # Unbounded /\ run > r.hi THEN r.hi ELSE run)
    IN  Taken(Greatest({k \in 0..(Len(s) - i) : \A j \in 1..k : s[i + j] \in r.a.s}))

MThen(ends, r, s) == IF ends = <<>> THEN <<>> ELSE M(r, s, Head(ends)) \o MThen(Tail(ends), r, s)

MRep(ends, r, s, i) ==
    IF ends = <<>> THEN <<>>
    ELSE (IF Head(ends) > i
          THEN M(Rep(r.a, IF r.lo > 0 THEN r.lo - 1 ELSE 0, IF r.hi = Unbounded THEN Unbounded ELSE r.hi - 1), s, Head(ends))
          ELSE <<>>) \o MRep(Tail(ends), r, s, i)

M(r, s, i) ==
    CASE r.k = "set" -> IF i < Len(s) /\ s[i + 1] \in r.s THEN <<i + 1>> ELSE <<>>
      [] r.k = "cat" -> MThen(M(r.a, s, i), r.b, s)
      [] r.k = "rep" /\ r.a.k = "set" -> MRun(r, s, i)
      [] r.k = "rep" /\ r.a.k # "set" -> (IF r.hi = 0 THEN <<>> ELSE MRep(M(r.a, s, i), r, s, i)) \o (IF r.lo = 0 THEN <<i>> ELSE <<>>)
      [] r.k = "alt" -> M(r.a, s, i) \o M(r.b, s, i)
      [] r.k = "wb" -> IF IsWordAt(s, i) # IsWordAt(s, i + 1) THEN <<i>> ELSE <<>>
      [] r.k = "eps" -> <<i>>

NoMatch == [found |-> FALSE]

\* the least number of a set of numbers
Least(S) == CHOOSE c \in S : \A d \in S : c <= d

\* the leftmost match of r in s that starts at or after `from`
Search(r, s, from) ==
    LET At(start) == [found |-> TRUE, start |-> start, end |-> Head(M(r, s, start))]
        First(starts) == IF starts = {} THEN NoMatch ELSE At(Least(starts))
    IN  First({i \in from..Len(s) : M(r, s, i) # <<>>})

\* RegExp.prototype.test of a pattern without the g flag
Test(r, s) == Search(r, s, 0).found

\* the leftmost match of Cat(pre, grp), with the place where the group starts
RECURSIVE FirstMid(_, _, _)
FirstMid(ends, grp, s) ==
    IF ends = <<>> THEN NoMatch
    ELSE LET Group(g) == IF g # <<>> THEN [found |-> TRUE, mid |-> Head(ends), end |-> Head(g)]
                         ELSE FirstMid(Tail(ends), grp, s)
         IN  Group(M(grp, s, Head(ends)))

SearchGroup(pre, grp, s, from) ==
    LET First(starts) == IF starts = {} THEN NoMatch ELSE FirstMid(M(pre, s, Least(starts)), grp, s)
    IN  First({i \in from..Len(s) : FirstMid(M(pre, s, i), grp, s).found})

\* String.prototype.matchAll with a pattern whose lastIndex is 0: the first
\* capture group of every match, left to right
RECURSIVE MatchAllGroup(_, _, _, _)
MatchAllGroup(pre, grp, s, from) ==
    LET From(m) == IF ~m.found THEN <<>>
                   ELSE <<SubSeq(s, m.mid + 1, m.end)>> \o MatchAllGroup(pre, grp, s, IF m.end > from THEN m.end ELSE from + 1)
    IN  From(SearchGroup(pre, grp, s, from))

\* the number of matches String.prototype.matchAll returns
RECURSIVE CountMatches(_, _, _)
CountMatches(r, s, from) ==
    LET From(m) == IF ~m.found THEN 0 ELSE 1 + CountMatches(r, s, IF m.end > m.start THEN m.end ELSE m.end + 1)
    IN  From(Search(r, s, from))

\* RegExp.prototype.test of a pattern with the g flag: the search starts at
\* the pattern's lastIndex, which is left at the end of the match, or at 0
TestG(r, s, lastIndex) ==
    LET Outcome(m) == IF m.found THEN [result |-> TRUE, lastIndex |-> m.end] ELSE [result |-> FALSE, lastIndex |-> 0]
    IN  Outcome(Search(r, s, lastIndex))

\* split(/[|\n\r]+/).map(s => s.trim()).filter(s => s.length > 0)
Delimiters == {"|", "\n", "\r"}

\* the k-th number of a set of numbers, in increasing order
Nth(S, k) == CHOOSE c \in S : Cardinality({d \in S : d < c}) = k - 1

\* the runs of s between its delimiters: cuts holds the places of the
\* delimiters, the place before s and the place after it
SplitRuns(s) ==
    LET Runs(cuts) == [k \in 1..(Cardinality(cuts) - 1) |-> SubSeq(s, Nth(cuts, k) + 1, Nth(cuts, k + 1) - 1)]
    IN  Runs({0, Len(s) + 1} \cup {i \in 1..Len(s) : s[i] \in Delimiters})

SplitSegments(text) ==
    LET Trimmed(runs) == SelectSeq([i \in 1..Len(runs) |-> trim(runs[i])], LAMBDA seg : Len(seg) > 0)
    IN  Trimmed(SplitRuns(text))

(***************************************************************************)
(* Numbers: parseFloat, in hundredths; NaN is a negative number            *)
(***************************************************************************)
NaN == 0 - 1

DigitVal(c) == (CHOOSE i \in 1..10 : Chars("0123456789")[i] = c) - 1

RECURSIVE DigitRun(_, _)
DigitRun(s, i) == IF i <= Len(s) /\ s[i] \in Digits THEN DigitRun(s, i + 1) ELSE i - 1

RECURSIVE DigitsValue(_)
DigitsValue(s) == IF s = <<>> THEN 0 ELSE 10 * DigitsValue(SubSeq(s, 1, Len(s) - 1)) + DigitVal(s[Len(s)])

\* parseFloat(s), then Math.round(value * 100): the longest prefix of s
\* (after leading white space) that is a decimal literal
parseFloatCents(str) ==
    LET Cents(s, e1, frac) ==
            IF e1 = 0 /\ Len(frac) = 0 THEN NaN
            ELSE 100 * DigitsValue(SubSeq(s, 1, e1))
                 + (IF Len(frac) >= 1 THEN 10 * DigitVal(frac[1]) ELSE 0)
                 + (IF Len(frac) >= 2 THEN DigitVal(frac[2]) ELSE 0)
                 + (IF Len(frac) >= 3 /\ DigitVal(frac[3]) >= 5 THEN 1 ELSE 0)
        Fraction(s, e1) == IF e1 < Len(s) /\ s[e1 + 1] = "." THEN SubSeq(s, e1 + 2, DigitRun(s, e1 + 2)) ELSE <<>>
        Literal(s, e1) == Cents(s, e1, Fraction(s, e1))
        Prefix(s) == Literal(s, DigitRun(s, 1))
    IN  Prefix(TrimLeft(str))

\* Math.round of the quotient num / den
RoundDiv(num, den) == (2 * num + den) \div (2 * den)

Clamp(lo, v, hi) == IF v < lo THEN lo ELSE IF v > hi THEN hi ELSE v

\* s.replace(/[...]/g, '') and s.replace(/[...]/g, c)
RemoveChars(s, S) == SelectSeq(s, LAMBDA c : c \notin S)

ReplaceChars(s, S, d) == [i \in 1..Len(s) |-> IF s[i] \in S THEN d ELSE s[i]]

(***************************************************************************)
(* OCRService: the Extractor                                               *)
(***************************************************************************)
Spaces == Star(Set(WhiteSpace))

Digit == Set(Digits)

\* [l1IO0-9,] under the i flag
NumeralClass == Set(BothCases({"l", "I", "O"}) \cup Digits \cup {","})

\* ([l1IO0-9,]+(?:\.[l1IO0-9]{1,2})?)
NumeralGroup == Cat(Plus(NumeralClass), Opt(Cat(Set({"."}), Rep(Set(BothCases({"l", "I", "O"}) \cup Digits), 1, 2))))

RsMarker == Cat(StrI("Rs"), Opt(Set({"."})))

monetaryKeywords ==
    << Chars("subtotal"), Chars("total"), Chars("amount"), Chars("paid"), Chars("cash"), Chars("change"),
       Chars("due"), Chars("balance"), Chars("discount"), Chars("tax"), Chars("gst"), Chars("vat"), Chars("cgst"), Chars("sgst"),
       Chars("price"), Chars("cost"), Chars("bill"), Chars("payment"), Chars("charge"), Chars("fee"), Chars("charges"), Chars("pald") >>

IdColonDigits(lo) == CatAll(<<Spaces, Opt(Set({":"})), Spaces, Rep(Digit, lo, Unbounded)>>)

DateSep == Set({"/", "-", "."})

excludePatterns ==
    << CatAll(<<WordBoundary, Alt(StrI("invoice"), StrI("bill")), Spaces, Opt(Set({"#"})), IdColonDigits(5), WordBoundary>>),
       CatAll(<<WordBoundary, Rep(Digit, 1, 2), DateSep, Rep(Digit, 1, 2), DateSep, Rep(Digit, 2, 4), WordBoundary>>),
       CatAll(<<WordBoundary, Rep(Digit, 1, 2), Set({":"}), Rep(Digit, 2, 2), Opt(Cat(Set({":"}), Rep(Digit, 2, 2))), Spaces, Opt(Alt(StrI("am"), StrI("pm")))>>),
       CatAll(<<StrI("patient"), Spaces, Alt(StrI("name"), StrI("id")), IdColonDigits(1)>>),
       CatAll(<<StrI("doctor"), Spaces, Alt(StrI("name"), StrI("id")), IdColonDigits(1)>>),
       CatAll(<<StrI("room"), Spaces, Alt(StrI("no"), StrI("number")), IdColonDigits(1)>>),
       CatAll(<<WordBoundary, AltAll(<<StrI("phone"), StrI("tel"), StrI("mobile"), StrI("contact")>>), IdColonDigits(10)>>) >>

NumExclude == Len(excludePatterns)

\* the lastIndex of every exclude pattern after construction
FreshLastIndex == [p \in 1..NumExclude |-> 0]

\* matchesExcludePattern(line), from pattern p on: the patterns are shared by
\* all calls and carry the g flag, so test() reads and writes their lastIndex
RECURSIVE matchesExcludeFrom(_, _, _)
matchesExcludeFrom(line, li, p) ==
    IF p > NumExclude THEN [result |-> FALSE, lastIndex |-> li]
    ELSE LET Tested(t) == IF t.result THEN [result |-> TRUE, lastIndex |-> [li EXCEPT ![p] = t.lastIndex]]
                          ELSE matchesExcludeFrom(line, [li EXCEPT ![p] = 0], p + 1)
         IN  Tested(TestG(excludePatterns[p], line, li[p]))

matchesExcludePattern(line, li) == matchesExcludeFrom(line, li, 1)

HasMonetaryKeyword(line) ==
    LET lowerLine == toLowerCase(line)
    IN  \E k \in 1..Len(monetaryKeywords) : includes(lowerLine, monetaryKeywords[k])

CurrencySymbols == {"$", "€", "£", "₹"}

\* /[\$€£₹]/.test(line) || /rs\.?\s/i.test(line)
HasCurrencyMarker(line) == Test(Set(CurrencySymbols), line) \/ Test(Cat(RsMarker, Set(WhiteSpace)), line)

\* /:\s*(?:Rs\.?|INR|\$|€|£|₹)?\s*[l1IO0-9,]+/i
ColonNumeral == CatAll(<<Set({":"}), Spaces, Opt(AltAll(<<RsMarker, StrI("INR"), Set(CurrencySymbols)>>)), Spaces, Plus(NumeralClass)>>)

\* isMonetaryLine(line): the answer and the exclude patterns' lastIndex after it
isMonetaryLine(line, li) ==
    LET Answer(ex) == [result |-> ~ex.result /\ (HasMonetaryKeyword(line) \/ HasCurrencyMarker(line) \/ Test(ColonNumeral, line)),
                       lastIndex |-> ex.lastIndex]
    IN  Answer(matchesExcludePattern(line, li))

\* (?:Rs\.?|INR|USD|EUR|GBP|\$|€|£|₹|:)\s*
ExtractPrefix == Cat(AltAll(<<RsMarker, StrI("INR"), StrI("USD"), StrI("EUR"), StrI("GBP"), Set(CurrencySymbols), Set({":"})>>), Spaces)

\* the Extractor's value of a token, for deduplication:
\* token.replace(/[,\s]/g, '').replace(/[lLiI]/g, '1').replace(/O/g, '0')
ExtractorNormalized(token) == ReplaceChars(ReplaceChars(RemoveChars(token, {","} \cup WhiteSpace), {"l", "L", "i", "I"}, "1"), {"O"}, "0")

\* whether the loop body of extractNumericTokensFromText keeps the token
KeepsToken(token, normalizedValue, seen) ==
    /\ Len(token) > 0
    /\ Len(normalizedValue) > 0
    /\ ~includes(token, <<"%">>)
    /\ parseFloatCents(normalizedValue) >= 100
    /\ normalizedValue \notin seen

RECURSIVE SegmentTokens(_, _, _)
SegmentTokens(captures, tokens, seen) ==
    IF captures = <<>> THEN [tokens |-> tokens, seen |-> seen]
    ELSE LET Match(token, normalizedValue) ==
                 IF KeepsToken(token, normalizedValue, seen)
                 THEN SegmentTokens(Tail(captures), Append(tokens, token), seen \cup {normalizedValue})
                 ELSE SegmentTokens(Tail(captures), tokens, seen)
         IN  Match(trim(Head(captures)), ExtractorNormalized(trim(Head(captures))))

RECURSIVE ExtractFromSegments(_, _, _, _)
ExtractFromSegments(segments, tokens, seen, li) ==
    IF segments = <<>> THEN [tokens |-> tokens, lastIndex |-> li]
    ELSE LET Monetary(acc, li2) == ExtractFromSegments(Tail(segments), acc.tokens, acc.seen, li2)
             Segment(mon) ==
                 IF mon.result
                 THEN Monetary(SegmentTokens(MatchAllGroup(ExtractPrefix, NumeralGroup, Head(segments), 0), tokens, seen), mon.lastIndex)
                 ELSE ExtractFromSegments(Tail(segments), tokens, seen, mon.lastIndex)
         IN  Segment(isMonetaryLine(Head(segments), li))

\* extractNumericTokensFromText(text), called with the exclude patterns'
\* lastIndex li: the tokens and the lastIndex the call leaves behind
extractNumericTokensFromText(text, li) == ExtractFromSegments(SplitSegments(text), <<>>, {}, li)

\* this.currencyHints, in scan order
currencyHints ==
    << [code |-> "INR", pattern |-> Alt(CatAll(<<WordBoundary, AltAll(<<StrI("inr"), Cat(StrI("rs"), Opt(Set({"."}))), Cat(StrI("rupee"), Opt(StrI("s")))>>), WordBoundary>>), Set({"₹"}))],
       [code |-> "USD", pattern |-> Alt(CatAll(<<WordBoundary, Alt(Str("usd"), Cat(Str("dollar"), Opt(Str("s")))), WordBoundary>>), Set({"$"}))],
       [code |-> "EUR", pattern |-> Alt(CatAll(<<WordBoundary, Alt(StrI("eur"), Cat(StrI("euro"), Opt(StrI("s")))), WordBoundary>>), Set({"€"}))],
       [code |-> "GBP", pattern |-> Alt(CatAll(<<WordBoundary, Alt(StrI("gbp"), Cat(StrI("pound"), Opt(StrI("s")))), WordBoundary>>), Set({"£"}))] >>

\* the number of matches of every hint in the lowercased text
CurrencyCounts(text) ==
    LET lowerText == toLowerCase(text)
    IN  [h \in 1..Len(currencyHints) |-> CountMatches(currencyHints[h].pattern, lowerText, 0)]

\* a faulty choice: of the hints with the highest count, the last one scanned
LastByCount(counts) ==
    CHOOSE h \in 1..Len(counts) :
        /\ \A g \in 1..Len(counts) : counts[g] <= counts[h]
        /\ \A g \in (h + 1)..Len(counts) : counts[g] < counts[h]

\* the hint that comes first when the hints with a match are sorted by
\* falling count; the sort is stable, so equal counts stay in scan order
FirstByCount(counts) ==
    CHOOSE h \in 1..Len(counts) :
        /\ \A g \in 1..Len(counts) : counts[g] <= counts[h]
        /\ \A g \in 1..(h - 1) : counts[g] < counts[h]

\* detectCurrency(text)
detectCurrency(text) ==
    LET Best(counts) == IF \A h \in 1..Len(counts) : counts[h] = 0 THEN "USD" ELSE currencyHints[FirstByCount(counts)].code
    IN  Best(CurrencyCounts(text))

MonetaryKeywordCount(text) ==
    LET lowerText == toLowerCase(text)
    IN  Cardinality({k \in 1..Len(monetaryKeywords) : includes(lowerText, monetaryKeywords[k])})

\* calculateConfidence(ocrConfidence, tokenCount, text) and
\* parseFloat(confidence.toFixed(2)): ocrConfidence and the result in hundredths
calculateConfidence(ocrConfidence, tokenCount, text) ==
    IF tokenCount = 0 THEN 0
    ELSE LET base == IF ocrConfidence > 0 THEN 10 * ocrConfidence ELSE 800
             counted == IF tokenCount >= 2 /\ tokenCount <= 10 THEN Clamp(0, base + 100, 950)
                        ELSE IF tokenCount = 1 THEN (base * 9) \div 10
                        ELSE IF tokenCount > 15 THEN (base * 8) \div 10
                        ELSE base
             boosted == IF MonetaryKeywordCount(text) >= 2 THEN Clamp(0, counted + 50, 950) ELSE counted
         IN  RoundDiv(Clamp(200, boosted, 950), 10)

\* extractFromTextOrImage after the OCR call: extractedText is the request's
\* text joined with the recognised text; li is the exclude patterns' lastIndex
extractFromText(extractedText, ocrConfidence, li) ==
    IF trim(extractedText) = <<>>
    THEN [raw_tokens |-> <<>>, currency_hint |-> "null", confidence |-> 0, extracted_text |-> <<>>, lastIndex |-> li]
    ELSE LET Result(ex) == [raw_tokens |-> ex.tokens, currency_hint |-> detectCurrency(extractedText),
                            confidence |-> calculateConfidence(ocrConfidence, Len(ex.tokens), extractedText),
                            extracted_text |-> extractedText, lastIndex |-> ex.lastIndex]
         IN  Result(extractNumericTokensFromText(extractedText, li))

\* extractedText ? `${extractedText}\n${ocrResult.text}` : ocrResult.text
JoinOcrText(text, ocrText) == IF text # <<>> THEN text \o <<"\n">> \o ocrText ELSE ocrText

(***************************************************************************)
(* NormalizerService                                                       *)
(***************************************************************************)
\* this.digitCorrections
digitCorrections ==
    [c \in {"l", "L", "I", "i", "O", "o", "D", "S", "s", "Z", "z", "B", "b", "G", "g", "T", "t"} |->
        CASE c \in {"l", "L", "I", "i"} -> "1"
          [] c \in {"O", "o", "D"} -> "0"
          [] c \in {"S", "s"} -> "5"
          [] c \in {"Z", "z"} -> "2"
          [] c \in {"B", "b"} -> "8"
          [] c \in {"G", "g"} -> "6"
          [] c \in {"T", "t"} -> "7"]

\* fixed.replace(/[Rs\.\$€£₹]/gi, '').replace(/\s+/g, '')
StripCurrency(s) == RemoveChars(RemoveChars(s, BothCases({"R", "s"}) \cup {"."} \cup CurrencySymbols), WhiteSpace)

\* whether the character before or after position i of s is a digit
\* a faulty test: every character counts as next to a digit
hasAdjacentDigitAlways(s, i) == TRUE

hasAdjacentDigit(s, i) == (i > 1 /\ s[i - 1] \in Digits) \/ (i < Len(s) /\ s[i + 1] \in Digits)

\* the character-by-character loop of fixOcrDigits: what position i adds
CorrectChar(s, i) ==
    IF s[i] \in DOMAIN digitCorrections /\ hasAdjacentDigit(s, i) THEN <<digitCorrections[s[i]]>>
    ELSE IF s[i] \in Digits \cup {".", ","} THEN <<s[i]>>
    ELSE <<>>

RECURSIVE CorrectFrom(_, _)
CorrectFrom(s, i) == IF i > Len(s) THEN <<>> ELSE CorrectChar(s, i) \o CorrectFrom(s, i + 1)

\* parts = fixed.split('.'); parts[0] + '.' + parts.slice(1).join('') when
\* there are more than two parts
RECURSIVE IndexOf(_, _, _)
IndexOf(s, c, i) == IF i > Len(s) THEN 0 ELSE IF s[i] = c THEN i ELSE IndexOf(s, c, i + 1)

CollapseDots(s) ==
    IF Len(SelectChars(s, {"."})) < 2 THEN s
    ELSE SubSeq(s, 1, IndexOf(s, ".", 1)) \o RemoveChars(SubSeq(s, IndexOf(s, ".", 1) + 1, Len(s)), {"."})

fixOcrDigits(token) ==
    IF token = <<>> THEN <<>>
    ELSE CollapseDots(SelectChars(RemoveChars(CorrectFrom(StripCurrency(trim(token)), 1), {","}), Digits \cup {"."}))

Null == [type |-> "null"]

\* a faulty percentage test: no token is taken for a percentage
IsPercentageNever(token) == FALSE

\* token.includes('%')
IsPercentage(token) == includes(token, <<"%">>)

\* parseNumeric(token): null, or the parsed number with its value in hundredths
parseNumeric(token) ==
    LET Parsed(fixed, value) ==
            IF fixed = <<>> \/ fixed = <<".">> THEN Null
            ELSE IF IsPercentage(token) THEN Null
            ELSE IF value < 0 THEN Null
            ELSE IF value < 1 THEN Null
            ELSE [type |-> "number", value |-> value, original |-> token, normalized |-> fixed]
        Fixed(fixed) == Parsed(fixed, parseFloatCents(fixed))
    IN  Fixed(fixOcrDigits(token))

\* calculateNormalizationConfidence(successful / total, amountCount) and
\* parseFloat(confidence.toFixed(2)), in hundredths
calculateNormalizationConfidence(successful, total, amountCount) ==
    IF amountCount = 0 THEN 0
    ELSE LET base == 50 * total + 40 * successful + (IF amountCount >= 2 /\ amountCount <= 10 THEN 10 * total ELSE 0)
             num == IF amountCount = 1 THEN 9 * base ELSE 10 * base
         IN  Clamp(30, RoundDiv(num, 10 * total), 99)

\* a faulty duplicate test: no value is taken for seen
IsDuplicateNever(amounts, value) == FALSE

\* seenValues.has(parsed.value): the values seen are the amounts kept so far
IsDuplicate(amounts, value) == \E j \in 1..Len(amounts) : amounts[j] = value

\* the loop of normalizeTokens over the tokens from position i on; acc holds
\* normalizedAmounts and details so far, parsed is parseNumeric(token)
RECURSIVE NormalizeFrom(_, _, _)
NormalizeFrom(rawTokens, i, acc) ==
    LET Token(token, parsed) ==
            IF parsed.type = "number"
            THEN IF IsDuplicate(acc.amounts, parsed.value)
                 THEN [amounts |-> acc.amounts,
                       details |-> Append(acc.details, [original |-> token, normalized |-> parsed.normalized, value |-> parsed.value,
                                                        success |-> FALSE, reason |-> "duplicate"])]
                 ELSE [amounts |-> Append(acc.amounts, parsed.value),
                       details |-> Append(acc.details, [original |-> token, normalized |-> parsed.normalized, value |-> parsed.value,
                                                        success |-> TRUE, reason |-> "none"])]
            ELSE [amounts |-> acc.amounts,
                  details |-> Append(acc.details, [original |-> token, normalized |-> fixOcrDigits(token), value |-> NaN,
                                                   success |-> FALSE, reason |-> "invalid_format"])]
    IN  IF i > Len(rawTokens) THEN acc
        ELSE NormalizeFrom(rawTokens, i + 1, Token(rawTokens[i], parseNumeric(rawTokens[i])))

CountSuccess(details) == Len(SelectSeq(details, LAMBDA d : d.success))

\* normalizeTokens(rawTokens)
normalizeTokens(rawTokens) ==
    IF rawTokens = <<>> THEN [normalized_amounts |-> <<>>, normalization_confidence |-> 0, details |-> <<>>]
    ELSE LET Result(r) ==
                 [normalized_amounts |-> r.amounts,
                  normalization_confidence |-> calculateNormalizationConfidence(CountSuccess(r.details), Len(rawTokens), Len(r.amounts)),
                  details |-> r.details]
         IN  Result(NormalizeFrom(rawTokens, 1, [amounts |-> <<>>, details |-> <<>>]))

(***************************************************************************)
(* ClassifierService                                                       *)
(***************************************************************************)
Keywords(strs) == [i \in 1..Len(strs) |-> Chars(strs[i])]

Word(str) == CatAll(<<WordBoundary, StrI(str), WordBoundary>>)

\* this.classificationRules, in declaration order
classificationRules ==
    << [type |-> "total_bill", priority |-> 10,
        keywords |-> Keywords(<<"total amount", "grand total", "invoice total", "net amount", "total", "t0tal", "t0tal:">>),
        patterns |-> <<CatAll(<<StrI("t"), Set({"0", "o", "O"}), StrI("tal")>>)>>],
       [type |-> "paid", priority |-> 9,
        keywords |-> Keywords(<<"amount paid", "paid", "received", "payment", "cash", "pald", "pald:">>),
        patterns |-> <<CatAll(<<StrI("pa"), Set(BothCases({"i", "l"})), StrI("d")>>)>>],
       [type |-> "due", priority |-> 9,
        keywords |-> Keywords(<<"balance due", "due", "balance", "remaining", "outstanding", "due:", "balance:">>),
        patterns |-> <<Word("due"), Word("balance")>>],
       [type |-> "subtotal", priority |-> 8,
        keywords |-> Keywords(<<"subtotal", "sub-total", "sub total", "before tax">>),
        patterns |-> <<CatAll(<<StrI("sub"), Spaces, StrI("total")>>)>>],
       [type |-> "tax", priority |-> 7,
        keywords |-> Keywords(<<"tax", "gst", "vat", "cgst", "sgst", "igst">>),
        patterns |-> <<Word("tax"), Word("gst"), Word("vat")>>],
       [type |-> "discount", priority |-> 6,
        keywords |-> Keywords(<<"discount", "off", "reduction">>),
        patterns |-> <<StrI("discount")>>],
       [type |-> "service_charge", priority |-> 5,
        keywords |-> Keywords(<<"room charges", "consultation", "lab tests", "medicines", "charges">>),
        patterns |-> <<StrI("charges"), StrI("consultation")>>] >>

Types == {classificationRules[r].type : r \in 1..Len(classificationRules)}

\* findContextSnippets(text)
findContextSnippets(text) == SplitSegments(text)

\* Pattern 1 and Pattern 2 of extractAmountsFromSnippet, up to the group
SnippetPrefixes ==
    << Cat(AltAll(<<RsMarker, StrI("INR"), StrI("USD"), StrI("EUR"), StrI("GBP"), Set(CurrencySymbols)>>), Spaces),
       CatAll(<<Set({":"}), Spaces, Opt(AltAll(<<RsMarker, StrI("INR"), Set(CurrencySymbols)>>)), Spaces>>) >>

\* valueStr.replace(/[,\s]/g, '').replace(/[lL]/g, '1').replace(/[iI]/g, '1').replace(/O/g, '0')
ClassifierNormalized(valueStr) == ReplaceChars(ReplaceChars(ReplaceChars(RemoveChars(valueStr, {","} \cup WhiteSpace), {"l", "L"}, "1"), {"i", "I"}, "1"), {"O"}, "0")

\* the values one pattern pushes, in match order
SnippetValues(captures) ==
    SelectSeq([i \in 1..Len(captures) |-> parseFloatCents(ClassifierNormalized(captures[i]))], LAMBDA v : v > 0)

\* [...new Map(amounts.map(a => [a.value, a])).values()]: every value once,
\* in the order of its first occurrence
RECURSIVE Unique(_)
Unique(vs) ==
    IF vs = <<>> THEN <<>>
    ELSE LET With(rest) == IF \E j \in 1..Len(rest) : rest[j] = vs[Len(vs)] THEN rest ELSE Append(rest, vs[Len(vs)])
         IN  With(Unique(SubSeq(vs, 1, Len(vs) - 1)))

\* extractAmountsFromSnippet(snippet): the values of the unique amounts
extractAmountsFromSnippet(snippet) ==
    Unique(SnippetValues(MatchAllGroup(SnippetPrefixes[1], NumeralGroup, snippet, 0))
           \o SnippetValues(MatchAllGroup(SnippetPrefixes[2], NumeralGroup, snippet, 0)))

PatternMatched(rule, snippet) == \E p \in 1..Len(rule.patterns) : Test(rule.patterns[p], snippet)

MatchedKeywords(rule, snippet) ==
    LET lowerSnippet == toLowerCase(snippet)
    IN  SelectSeq(rule.keywords, LAMBDA kw : includes(lowerSnippet, toLowerCase(kw)))

\* a faulty score: every matching pattern adds its bonus
RuleScoreEveryPattern(rule, snippet) ==
    rule.priority * 2 * Cardinality({p \in 1..Len(rule.patterns) : Test(rule.patterns[p], snippet)})
    + rule.priority * Len(MatchedKeywords(rule, snippet))

\* the score matchSnippetToType gives a rule
RuleScore(rule, snippet) ==
    (IF PatternMatched(rule, snippet) THEN rule.priority * 2 ELSE 0) + rule.priority * Len(MatchedKeywords(rule, snippet))

\* a faulty confidence: the base 0.5 is left out
MatchConfidenceNoBase(score) == IF 2 * score > 57 THEN 57 ELSE 2 * score

\* Math.min(0.95, 0.5 + score / 30), in sixtieths
MatchConfidence(score) == IF 30 + 2 * score > 57 THEN 57 ELSE 30 + 2 * score

\* the score of every rule, in the order of declaration
RuleScores(snippet) == [r \in 1..Len(classificationRules) |-> RuleScore(classificationRules[r], snippet)]

\* the loop of matchSnippetToType over the rules from r on
RECURSIVE BestMatchFrom(_, _, _, _)
BestMatchFrom(scores, r, bestMatch, highestScore) ==
    IF r > Len(scores) THEN bestMatch
    ELSE IF scores[r] > highestScore
    THEN BestMatchFrom(scores, r + 1,
                       [type |-> classificationRules[r].type, confidence |-> MatchConfidence(scores[r]), score |-> scores[r]], scores[r])
    ELSE BestMatchFrom(scores, r + 1, bestMatch, highestScore)

\* matchSnippetToType(snippet): the best match, or null
matchSnippetToType(snippet) == BestMatchFrom(RuleScores(snippet), 1, Null, 0)

Abs(v) == IF v < 0 THEN 0 - v ELSE v

Undefined == 0 - 1

\* normalizedAmounts.find(na => Math.abs(na - value) < 0.01), from index i on
RECURSIVE FindAmount(_, _, _)
FindAmount(normalizedAmounts, value, i) ==
    IF i > Len(normalizedAmounts) THEN Undefined
    ELSE IF Abs(normalizedAmounts[i] - value) < 1 THEN normalizedAmounts[i]
    ELSE FindAmount(normalizedAmounts, value, i + 1)

\* a faulty lookup: the snippet's value is taken without looking it up
MatchedAmountUnchecked(normalizedAmounts, value) == value

\* matchedAmount of classifyAmounts
MatchedAmount(normalizedAmounts, value) == FindAmount(normalizedAmounts, value, 1)

\* a faulty push: the entry goes to the front
RecordAmountFront(amounts, entry) == <<entry>> \o amounts

\* amounts.push(entry)
RecordAmount(amounts, entry) == Append(amounts, entry)

\* snippet.length > 80 ? snippet.substring(0, 80) + '...' : snippet
TruncatedSnippet(snippet) == IF Len(snippet) > 80 THEN SubSeq(snippet, 1, 80) \o Chars("...") ELSE snippet

\* `text: '${truncatedSnippet}'`
SourceText(snippet) == Chars("text: '") \o TruncatedSnippet(snippet) \o Chars("'")

\* a faulty check: no pair counts as classified
AlreadyClassifiedNever(amounts, type, value) == FALSE

\* classifiedPairs.has(pairKey): every pushed entry added its `${type}:${value}`
AlreadyClassified(amounts, type, value) == \E j \in 1..Len(amounts) : amounts[j].type = type /\ amounts[j].value = value

\* the checks of the inner loop of classifyAmounts that come before the pair
\* check, for one extracted value: the entry that would be pushed, if any
CandidateEntries(snippet, value, normalizedAmounts) ==
    LET Classified(matchedAmount, classification) ==
            IF matchedAmount = Undefined \/ matchedAmount = 0 THEN <<>>
            ELSE IF classification = Null THEN <<>>
            ELSE IF classification.confidence <= 30 THEN <<>>
            ELSE << [type |-> classification.type, value |-> matchedAmount,
                     source |-> SourceText(snippet), confidence |-> classification.confidence] >>
    IN  Classified(MatchedAmount(normalizedAmounts, value), matchSnippetToType(snippet))

\* the inner loop, over the values extracted from one snippet
RECURSIVE ValueCandidates(_, _, _)
ValueCandidates(snippet, values, normalizedAmounts) ==
    IF values = <<>> THEN <<>>
    ELSE CandidateEntries(snippet, Head(values), normalizedAmounts) \o ValueCandidates(snippet, Tail(values), normalizedAmounts)

\* the outer loop, over the snippets
RECURSIVE SnippetCandidates(_, _)
SnippetCandidates(snippets, normalizedAmounts) ==
    IF snippets = <<>> THEN <<>>
    ELSE ValueCandidates(Head(snippets), extractAmountsFromSnippet(Head(snippets)), normalizedAmounts)
             \o SnippetCandidates(Tail(snippets), normalizedAmounts)

\* the pair check and the push, for the candidate entries from k on in the
\* order of the two loops; no other check depends on what was pushed
RECURSIVE ClassifyEntries(_, _, _)
ClassifyEntries(entries, k, amounts) ==
    IF k > Len(entries) THEN amounts
    ELSE IF AlreadyClassified(amounts, entries[k].type, entries[k].value) THEN ClassifyEntries(entries, k + 1, amounts)
    ELSE ClassifyEntries(entries, k + 1, RecordAmount(amounts, entries[k]))

HasType(amounts, type) == \E j \in 1..Len(amounts) : amounts[j].type = type

\* calculateClassificationConfidence(amounts, totalAmounts) and
\* parseFloat(confidence.toFixed(2)), in hundredths
calculateClassificationConfidence(amounts, totalAmounts) ==
    IF totalAmounts = 0 THEN 0
    ELSE LET bonus == 5 * Cardinality({t \in {"total_bill", "paid", "due"} : HasType(amounts, t)})
             n == Len(amounts)
             explicitMatches == Cardinality({i \in 1..n : ~includes(amounts[i].source, Chars("heuristic"))})
         IN  IF n = 0 THEN Clamp(40, 40 + bonus, 95)
             ELSE Clamp(40, RoundDiv((40 + bonus) * totalAmounts * n + 30 * n * n + 30 * explicitMatches * totalAmounts,
                                     totalAmounts * n), 95)

\* classifyAmounts(text, normalizedAmounts); `amounts` keeps the confidence
\* the returned list drops
classifyAmounts(text, normalizedAmounts) ==
    IF text = <<>> \/ normalizedAmounts = <<>> THEN [amounts |-> <<>>, confidence |-> 0]
    ELSE LET Result(amounts) == [amounts |-> amounts, confidence |-> calculateClassificationConfidence(amounts, Len(normalizedAmounts))]
         IN  Result(ClassifyEntries(SnippetCandidates(findContextSnippets(text), normalizedAmounts), 1, <<>>))

\* a faulty list: due is taken for a singleton type too
singletonTypesWithDue == <<"total_bill", "subtotal", "paid", "due">>

\* singletonTypes of validateClassification
singletonTypes == <<"total_bill", "subtotal", "paid">>

\* a faulty comparison: any difference counts
InconsistentExact(expectedDue, due) == Abs(expectedDue - due) > 0

\* Math.abs(expectedDue - due) > 1, in hundredths
Inconsistent(expectedDue, due) == Abs(expectedDue - due) > 100

\* validateClassification(amounts); an issue is kept as the values its
\* message is made of
validateClassification(amounts) ==
    LET typeMap(type) == LET own == SelectSeq(amounts, LAMBDA a : a.type = type)
                         IN  [i \in 1..Len(own) |-> own[i].value]
        Max(vs) == CHOOSE v \in {vs[i] : i \in 1..Len(vs)} : \A i \in 1..Len(vs) : vs[i] <= v
        multiple == SelectSeq(singletonTypes, LAMBDA type : Len(typeMap(type)) > 1)
        singletons == [i \in 1..Len(multiple) |-> [issue |-> "multiple", type |-> multiple[i], values |-> typeMap(multiple[i])]]
        Checked(totals, paids, dues) ==
            IF totals # <<>> /\ paids # <<>> /\ dues # <<>> /\ Inconsistent(totals[1] - paids[1], Max(dues))
            THEN <<[issue |-> "inconsistent", total |-> totals[1], paid |-> paids[1], due |-> Max(dues)]>>
            ELSE <<>>
        Result(issues) == [valid |-> issues = <<>>, issues |-> issues]
    IN  Result(singletons \o Checked(typeMap("total_bill"), typeMap("paid"), typeMap("due")))

(***************************************************************************)
(* validators and LLMService, as far as the routes use them                *)
(***************************************************************************)
\* sanitizeText(text): control characters are removed (the form feed is the
\* one a string of this module can hold), newlines and tabs are kept
sanitizeText(text) == RemoveChars(text, {"\f"})

\* validateText(text).valid
validateText(text) == text # <<>> /\ trim(text) # <<>> /\ Len(text) <= 50000

(***************************************************************************)
(* Inputs                                                                  *)
(***************************************************************************)
\* the segments a request text is put together from
MaxSegs == 2

SegmentLib == {Chars("Total: 5000"), Chars("Due: 2OO"), Chars("Paid: lO"), Chars("Room No: 12"), Chars("Hello")}

RECURSIVE Joins(_)
Joins(n) ==
    IF n = 1 THEN SegmentLib
    ELSE Joins(n - 1) \cup {t \o Chars(" | ") \o seg : t \in Joins(n - 1), seg \in SegmentLib}

\* the texts of the documentation and of the manual test script
ExampleTexts ==
    { Chars("T0tal: Rs l200 | Pald: 1O00 | Due: 2OO"),
      Chars("T0tal: Rs l200 | Pald: 1O00 | Due: 2OO | Balance: 200"),
      Chars("This is a document with no numbers or amounts in it at all."),
      Chars("Total: 5000\nPaid: 3000\nDue: 2000"),
      Chars("Total: INR 1200 | Paid: 1000 | Due: 200 | Discount: 10%"),
      Chars("Total: $100 | Paid: €80 | Due: £20"),
      Chars("Total: Rs 500 | Paid: $20 | Due: $30"),
      Chars("Total: 90 euros | Paid: £20 | Due: 70 GBP"),
      Chars("   ") }

Texts == ExampleTexts \cup Joins(MaxSegs)

\* the texts sent along with an image, <<>> for none
CaptionTexts == {<<>>, Chars("Paid: 3000")}

\* what the OCR engine may recognise: the text and the confidence in percent
OcrTexts == {<<>>, Chars(" Total: 5000\n"), Chars("Room No: 12")}

OcrConfidences == {0, 90}

(***************************************************************************)
(* The server: the shared services and one request at a time.  A handler   *)
(* runs without interruption between two awaits, so an action is the code  *)
(* from one await to the next.                                             *)
(***************************************************************************)
VARIABLES
    lastIndex,          \* OCRService.excludePatterns[p].lastIndex, shared by all requests
    llmEnabled,         \* LLMService.enabled
    pc,                 \* "idle", "await_ocr", "await_llm", "done"
    req,                \* the request: endpoint, text, image
    ocrResult,          \* what extractFromTextOrImage returned to the handler
    normalizedResult,   \* what normalizeTokens returned to the handler
    classifiedResult,   \* what classifyAmounts returned to the handler
    finalOutput,        \* the handler's finalOutput while the LLM call is awaited
    calls,              \* how often each collaborator and stage was invoked in this run
    response,           \* the response of the request
    norm,               \* a call of normalizeTokens: the tokens and the result
    cls                 \* a call of the ClassifierService: its arguments and the result

vars == <<lastIndex, llmEnabled, pc, req, ocrResult, normalizedResult, classifiedResult, finalOutput, calls, response, norm, cls>>

runVars == <<pc, req, ocrResult, normalizedResult, classifiedResult, finalOutput, calls, response>>

NotRun == [status |-> "not_run"]

NoCalls == [ocr |-> 0, extract |-> 0, normalize |-> 0, classify |-> 0, llm |-> 0, ocrFailed |-> FALSE, llmFailed |-> FALSE]

NoRequest == [endpoint |-> "none", text |-> <<>>, image |-> FALSE]

Idle ==
    /\ pc = "idle"
    /\ req = NoRequest
    /\ ocrResult = NotRun
    /\ normalizedResult = NotRun
    /\ classifiedResult = NotRun
    /\ finalOutput = NotRun
    /\ calls = NoCalls
    /\ response = NotRun

NoNormCall == [tokens |-> <<>>, result |-> NotRun]

NoClsCall == [text |-> <<>>, amounts |-> <<>>, result |-> NotRun]

Init ==
    /\ lastIndex = FreshLastIndex
    /\ llmEnabled \in BOOLEAN
    /\ Idle
    /\ norm = NoNormCall
    /\ cls = NoClsCall

NoAmountsReason == "document too noisy or contains no numeric amounts"

NormalizationFailedReason == "could not parse any valid numeric amounts from extracted tokens"

\* a faulty metadata: amounts_normalized counts every token the Normalizer
\* looked at
MetadataCountingDetails(ocr, normalized, classified) ==
    [extraction_confidence |-> ocr.confidence,
     normalization_confidence |-> normalized.normalization_confidence,
     classification_confidence |-> classified.confidence,
     total_tokens_extracted |-> Len(ocr.raw_tokens),
     amounts_normalized |-> Len(normalized.details),
     amounts_classified |-> Len(classified.amounts)]

\* finalOutput.metadata of router.post('/final')
Metadata(ocr, normalized, classified) ==
    [extraction_confidence |-> ocr.confidence,
     normalization_confidence |-> normalized.normalization_confidence,
     classification_confidence |-> classified.confidence,
     total_tokens_extracted |-> Len(ocr.raw_tokens),
     amounts_normalized |-> Len(normalized.normalized_amounts),
     amounts_classified |-> Len(classified.amounts)]

\* finalOutput of router.post('/final')
BuildFinalOutput(ocr, normalized, classified) ==
    [currency |-> IF ocr.currency_hint = "null" THEN "UNKNOWN" ELSE ocr.currency_hint,
     amounts |-> [i \in 1..Len(classified.amounts) |->
                     [type |-> classified.amounts[i].type, value |-> classified.amounts[i].value, source |-> classified.amounts[i].source]],
     status |-> "ok",
     metadata |-> Metadata(ocr, normalized, classified)]

\* a faulty first guardrail: it never fires
NoTokensFoundNever(ocr) == FALSE

\* !ocrResult.raw_tokens || ocrResult.raw_tokens.length === 0
NoTokensFound(ocr) == ocr.raw_tokens = <<>>

\* a faulty second guardrail: it never fires
NoAmountsNormalizedNever(normalized) == FALSE

\* normalizedResult.normalized_amounts.length === 0
NoAmountsNormalized(normalized) == normalized.normalized_amounts = <<>>

\* router.post('/final') from the return of extractFromTextOrImage to the
\* response or to the LLM call
FinalAfterExtract(ocr) ==
    IF NoTokensFound(ocr)
    THEN /\ response' = [status |-> "no_amounts_found", reason |-> NoAmountsReason, extracted_text |-> ocr.extracted_text]
         /\ calls' = [calls EXCEPT !.extract = @ + 1]
         /\ pc' = "done"
         /\ UNCHANGED <<normalizedResult, classifiedResult, finalOutput>>
    ELSE \E normalized \in {normalizeTokens(ocr.raw_tokens)} :
         IF NoAmountsNormalized(normalized)
         THEN /\ response' = [status |-> "normalization_failed", reason |-> NormalizationFailedReason,
                              raw_tokens |-> ocr.raw_tokens, extracted_text |-> ocr.extracted_text]
              /\ normalizedResult' = normalized
              /\ calls' = [calls EXCEPT !.extract = @ + 1, !.normalize = @ + 1]
              /\ pc' = "done"
              /\ UNCHANGED <<classifiedResult, finalOutput>>
         ELSE \E classified \in {classifyAmounts(IF ocr.extracted_text # <<>> THEN ocr.extracted_text ELSE req.text,
                                                 normalized.normalized_amounts)} :
              \E output \in {BuildFinalOutput(ocr, normalized, classified)} :
              /\ normalizedResult' = normalized
              /\ classifiedResult' = classified
              /\ finalOutput' = output
              /\ IF llmEnabled
                 THEN /\ calls' = [calls EXCEPT !.extract = @ + 1, !.normalize = @ + 1, !.classify = @ + 1, !.llm = @ + 1]
                      /\ pc' = "await_llm"
                      /\ UNCHANGED response
                 ELSE /\ calls' = [calls EXCEPT !.extract = @ + 1, !.normalize = @ + 1, !.classify = @ + 1]
                      /\ pc' = "done"
                      /\ response' = output

\* router.post('/extract') from the return of extractFromTextOrImage on
ExtractAfterExtract(ocr) ==
    /\ response' = IF NoTokensFound(ocr)
                   THEN [status |-> "no_amounts_found", reason |-> NoAmountsReason]
                   ELSE [status |-> "extracted", raw_tokens |-> ocr.raw_tokens, currency_hint |-> ocr.currency_hint,
                         confidence |-> ocr.confidence, extracted_text |-> ocr.extracted_text]
    /\ calls' = [calls EXCEPT !.extract = @ + 1]
    /\ pc' = "done"
    /\ UNCHANGED <<normalizedResult, classifiedResult, finalOutput>>

\* the handler from the point where the text to scan is known
AfterOcr(endpoint, extractedText, ocrConfidence) ==
    \E ocr \in {extractFromText(extractedText, ocrConfidence, lastIndex)} :
        /\ lastIndex' = ocr.lastIndex
        /\ ocrResult' = [raw_tokens |-> ocr.raw_tokens, currency_hint |-> ocr.currency_hint,
                         confidence |-> ocr.confidence, extracted_text |-> ocr.extracted_text]
        /\ IF endpoint = "final" THEN FinalAfterExtract(ocr) ELSE ExtractAfterExtract(ocr)

BadRequest(error) == [status |-> "http_error", http |-> 400, error |-> error]

\* a request arrives: the handler runs to its first await or to its response
Receive(endpoint, text, image) ==
    /\ pc = "idle"
    /\ req' = [endpoint |-> endpoint, text |-> sanitizeText(text), image |-> image]
    /\ IF text = <<>> /\ ~image
       THEN /\ response' = BadRequest("missing_input")
            /\ pc' = "done"
            /\ UNCHANGED <<lastIndex, ocrResult, normalizedResult, classifiedResult, finalOutput, calls>>
       ELSE IF endpoint = "extract" /\ text # <<>> /\ ~validateText(text)
       THEN /\ response' = BadRequest("validation_error")
            /\ pc' = "done"
            /\ UNCHANGED <<lastIndex, ocrResult, normalizedResult, classifiedResult, finalOutput, calls>>
       ELSE IF image
       THEN /\ pc' = "await_ocr"
            /\ calls' = [calls EXCEPT !.ocr = @ + 1]
            /\ UNCHANGED <<lastIndex, ocrResult, normalizedResult, classifiedResult, finalOutput, response>>
       ELSE AfterOcr(endpoint, sanitizeText(text), 0)
    /\ UNCHANGED <<llmEnabled, norm, cls>>

\* worker.recognize resolves: imageBufferToText returns the trimmed text
OcrResolve(ocrText, confidence) ==
    /\ pc = "await_ocr"
    /\ AfterOcr(req.endpoint, JoinOcrText(req.text, trim(ocrText)), confidence)
    /\ UNCHANGED <<llmEnabled, req, norm, cls>>

\* a faulty handling: after a failure the OCR engine is called once more
OcrRejectRetried ==
    /\ pc = "await_ocr"
    /\ calls.ocr < 2
    /\ calls' = [calls EXCEPT !.ocr = @ + 1, !.ocrFailed = TRUE]
    /\ UNCHANGED <<lastIndex, llmEnabled, pc, req, ocrResult, normalizedResult, classifiedResult, finalOutput, response, norm, cls>>

\* the OCR call fails: imageBufferToText throws 'OCR failed: ...', the
\* handler passes it to next(error) and errorHandler answers 500
OcrReject ==
    /\ pc = "await_ocr"
    /\ response' = [status |-> "http_error", http |-> 500, error |-> "ocr_error"]
    /\ calls' = [calls EXCEPT !.ocrFailed = TRUE]
    /\ pc' = "done"
    /\ UNCHANGED <<lastIndex, llmEnabled, req, ocrResult, normalizedResult, classifiedResult, finalOutput, norm, cls>>

\* a faulty handling: the amounts are dropped when the validator rejects them
LlmResolveApplying(parsable, valid) ==
    /\ pc = "await_llm"
    /\ response' = IF parsable
                   THEN [currency |-> finalOutput.currency, amounts |-> IF valid THEN finalOutput.amounts ELSE <<>>,
                         status |-> finalOutput.status, metadata |-> finalOutput.metadata, llm_validation |-> [valid |-> valid]]
                   ELSE finalOutput
    /\ pc' = "done"
    /\ UNCHANGED <<lastIndex, llmEnabled, req, ocrResult, normalizedResult, classifiedResult, finalOutput, calls, norm, cls>>

\* axios.post resolves and parseValidationResponse reads the answer
LlmResolve(parsable, valid) ==
    /\ pc = "await_llm"
    /\ response' = IF parsable
                   THEN [currency |-> finalOutput.currency, amounts |-> finalOutput.amounts, status |-> finalOutput.status,
                         metadata |-> finalOutput.metadata, llm_validation |-> [valid |-> valid]]
                   ELSE finalOutput
    /\ pc' = "done"
    /\ UNCHANGED <<lastIndex, llmEnabled, req, ocrResult, normalizedResult, classifiedResult, finalOutput, calls, norm, cls>>

\* axios.post fails: validateClassification catches the error and returns
\* {validated: false}, so the handler attaches nothing
LlmReject ==
    /\ pc = "await_llm"
    /\ response' = finalOutput
    /\ calls' = [calls EXCEPT !.llmFailed = TRUE]
    /\ pc' = "done"
    /\ UNCHANGED <<lastIndex, llmEnabled, req, ocrResult, normalizedResult, classifiedResult, finalOutput, norm, cls>>

\* the request is over; the services live on
Finish ==
    /\ pc = "done"
    /\ pc' = "idle"
    /\ req' = NoRequest
    /\ ocrResult' = NotRun
    /\ normalizedResult' = NotRun
    /\ classifiedResult' = NotRun
    /\ finalOutput' = NotRun
    /\ calls' = NoCalls
    /\ response' = NotRun
    /\ UNCHANGED <<lastIndex, llmEnabled, norm, cls>>

Next ==
    \/ \E endpoint \in {"final", "extract"}, text \in Texts : Receive(endpoint, text, FALSE)
    \/ \E endpoint \in {"final", "extract"}, text \in CaptionTexts : Receive(endpoint, text, TRUE)
    \/ \E ocrText \in OcrTexts, confidence \in OcrConfidences : OcrResolve(ocrText, confidence)
    \/ OcrReject
    \/ \E parsable \in BOOLEAN, valid \in BOOLEAN : LlmResolve(parsable, valid)
    \/ LlmReject
    \/ Finish

Spec == Init /\ [][Next]_vars

(***************************************************************************)
(* Calls of normalizeTokens                                                *)
(***************************************************************************)
MaxTokens == 2

MaxTokLen == 3

TokenLib == {Chars("l200"), Chars("1200"), Chars("2OO"), Chars("10%"), Chars("Hello"), Chars("12.50"), Chars("l2O0"), Chars("B5")}

TokenAlphabet == {"0", "1", "2", "l", "I", "O", "S", "H", ".", "%"}

RECURSIVE ListsOver(_, _)
ListsOver(S, n) == IF n = 0 THEN {<<>>} ELSE ListsOver(S, n - 1) \cup {Append(l, e) : l \in ListsOver(S, n - 1), e \in S}

\* the token lists of the documentation and of the manual test script
ExampleTokenLists ==
    { <<Chars("l200"), Chars("1O00"), Chars("2OO"), Chars("10%")>>,
      <<Chars("l200"), Chars("1O00"), Chars("2OO"), Chars("10%"), Chars("Rs.500")>> }

TokenLists == ExampleTokenLists \cup ListsOver(TokenLib, MaxTokens) \cup {<<t>> : t \in ListsOver(TokenAlphabet, MaxTokLen) \ {<<>>}}

InitNorm ==
    /\ lastIndex = FreshLastIndex
    /\ llmEnabled = FALSE
    /\ Idle
    /\ norm \in {[tokens |-> ts, result |-> NotRun] : ts \in TokenLists}
    /\ cls = NoClsCall

NormalizeCall ==
    /\ norm.result = NotRun
    /\ norm' = [norm EXCEPT !.result = normalizeTokens(norm.tokens)]
    /\ UNCHANGED <<lastIndex, llmEnabled, runVars, cls>>

NextNorm == NormalizeCall

SpecNorm == InitNorm /\ [][NextNorm]_vars

(***************************************************************************)
(* Calls of classifyAmounts                                                *)
(***************************************************************************)
MaxAmounts == 2

\* 5000, 200 and 20, in hundredths
AmountLib == {500000, 20000, 2000}

\* the calls of the documentation and of the manual test script
ExampleCalls ==
    { [text |-> Chars("Total: 5000\nPaid: 3000\nDue: 2000"), amounts |-> <<500000, 300000, 200000>>],
      [text |-> Chars("Bill Total: 5000\nAmount Paid: 3000\nBalance Due: 2000"), amounts |-> <<500000, 300000, 200000>>],
      [text |-> Chars("Consultation: Rs 500\nLab Tests: Rs 1500\nSubtotal: Rs 2000\nGST @18%: Rs 360\nTotal: Rs 2360\nPaid: Rs 2000\nDue: Rs 360"),
       amounts |-> <<50000, 150000, 200000, 36000, 236000>>],
      [text |-> Chars("Balance Paid: 200 | Discount Tax: 20"), amounts |-> <<20000, 2000>>] }

ClassifyCalls == ExampleCalls \cup {[text |-> t, amounts |-> a] : t \in Texts, a \in ListsOver(AmountLib, MaxAmounts)}

InitClassify ==
    /\ lastIndex = FreshLastIndex
    /\ llmEnabled = FALSE
    /\ Idle
    /\ norm = NoNormCall
    /\ cls \in {[text |-> c.text, amounts |-> c.amounts, result |-> NotRun] : c \in ClassifyCalls}

ClassifyCall ==
    /\ cls.result = NotRun
    /\ cls' = [cls EXCEPT !.result = classifyAmounts(cls.text, cls.amounts)]
    /\ UNCHANGED <<lastIndex, llmEnabled, runVars, norm>>

NextClassify == ClassifyCall

SpecClassify == InitClassify /\ [][NextClassify]_vars

(***************************************************************************)
(* Calls of validateClassification                                         *)
(***************************************************************************)
MaxEntries == 3

\* the lists of classified amounts validateClassification is called with:
\* the documented ones and the lists of up to MaxEntries entries, with at
\* most one entry per (type, value) pair as classifyAmounts returns them
ValidateCalls ==
    LET Entry(type, value) == [type |-> type, value |-> value]
        EntryLib == {Entry("total_bill", 200000), Entry("total_bill", 150000), Entry("paid", 150000), Entry("paid", 50000),
                     Entry("due", 50000), Entry("due", 50100), Entry("due", 50101), Entry("due", 60000),
                     Entry("subtotal", 200000), Entry("subtotal", 150000), Entry("tax", 50000), Entry("tax", 36000),
                     Entry("discount", 50000), Entry("discount", 10000), Entry("service_charge", 50000), Entry("service_charge", 150000)}
        Documented == { <<Entry("total_bill", 200000), Entry("paid", 150000), Entry("due", 60000)>>,
                        <<Entry("total_bill", 200000), Entry("paid", 150000), Entry("due", 50000), Entry("due", 60000)>>,
                        <<Entry("total_bill", 500000), Entry("paid", 300000), Entry("due", 200000)>> }
    IN  Documented \cup {l \in ListsOver(EntryLib, MaxEntries) : \A i, j \in 1..Len(l) : i # j => l[i] # l[j]}

InitValidate ==
    /\ lastIndex = FreshLastIndex
    /\ llmEnabled = FALSE
    /\ Idle
    /\ norm = NoNormCall
    /\ cls \in {[text |-> <<>>, amounts |-> l, result |-> NotRun] : l \in ValidateCalls}

ValidateCall ==
    /\ cls.result = NotRun
    /\ cls' = [cls EXCEPT !.result = validateClassification(cls.amounts)]
    /\ UNCHANGED <<lastIndex, llmEnabled, runVars, norm>>

NextValidate == ValidateCall

SpecValidate == InitValidate /\ [][NextValidate]_vars


(***************************************************************************)
(* Properties of the pipeline, POST /api/final                             *)
(***************************************************************************)
\* the text of "Test 2: OCR errors simulation"
OcrErrorsText == Chars("T0tal: Rs l200 | Pald: 1O00 | Due: 2OO")

\* the types and values of a list of classified amounts
TypedValues(amounts) == [i \in 1..Len(amounts) |-> <<amounts[i].type, amounts[i].value>>]

\* C1: in a run of /final in which the Extractor returned no raw tokens, the
\* run has ended with {status: 'no_amounts_found', reason, extracted_text}
\* and neither the Normalizer nor the Classifier nor the LLM validator was
\* invoked.
C1_NoTokensEndsRun ==
    (req.endpoint = "final" /\ ocrResult # NotRun /\ ocrResult.raw_tokens = <<>>) =>
        /\ pc = "done"
        /\ response = [status |-> "no_amounts_found", reason |-> NoAmountsReason, extracted_text |-> ocrResult.extracted_text]
        /\ calls.normalize = 0
        /\ calls.classify = 0
        /\ calls.llm = 0

\* a run of /final over a text without amounts has answered
C1_Witness ==
    /\ pc = "done"
    /\ req.endpoint = "final"
    /\ ocrResult # NotRun
    /\ ocrResult.raw_tokens = <<>>
    /\ ocrResult.extracted_text # <<>>
    /\ response.status = "no_amounts_found"

\* C2: in a run of /final in which the Extractor returned tokens and the
\* Normalizer returns no amount for them, the run has ended with a
\* structured result of status 'normalization_failed' that carries the
\* Extractor's raw_tokens and extracted_text, and the Classifier was not
\* invoked.
C2_NoAmountsEndsRun ==
    (req.endpoint = "final" /\ ocrResult # NotRun /\ ocrResult.raw_tokens # <<>>
        /\ normalizeTokens(ocrResult.raw_tokens).normalized_amounts = <<>>) =>
        /\ pc = "done"
        /\ response = [status |-> "normalization_failed", reason |-> NormalizationFailedReason,
                       raw_tokens |-> ocrResult.raw_tokens, extracted_text |-> ocrResult.extracted_text]
        /\ calls.normalize = 1
        /\ calls.classify = 0
        /\ calls.llm = 0

\* a run of /final whose tokens all failed to normalize has answered
C2_Witness ==
    /\ pc = "done"
    /\ req.endpoint = "final"
    /\ ocrResult # NotRun
    /\ ocrResult.raw_tokens # <<>>
    /\ normalizedResult # NotRun
    /\ normalizedResult.normalized_amounts = <<>>
    /\ response.status = "normalization_failed"

C4_Stateless ==
    ocrResult # NotRun =>
        ocrResult.raw_tokens = extractFromText(ocrResult.extracted_text, 0, FreshLastIndex).raw_tokens

\* C8: the pipeline on 'T0tal: Rs l200 | Pald: 1O00 | Due: 2OO' returns
\* status 'ok' with the amounts total_bill 1200, paid 1000 and due 200.
C8_OcrErrorsExample ==
    (pc = "done" /\ req.endpoint = "final" /\ ~req.image /\ req.text = OcrErrorsText) =>
        /\ response.status = "ok"
        /\ TypedValues(response.amounts) = << <<"total_bill", 120000>>, <<"paid", 100000>>, <<"due", 20000>> >>
(***************************************************************************)
(* Properties of normalizeTokens                                           *)
(***************************************************************************)
\* the tokens of "Test 3: Normalization only" the documentation lists
LookAlikeTokens == <<Chars("l200"), Chars("1O00"), Chars("2OO"), Chars("10%")>>

\* the amounts the details record as successes, in order
SuccessValues(details) ==
    LET kept == SelectSeq(details, LAMBDA d : d.success)
    IN  [i \in 1..Len(kept) |-> kept[i].value]

\* C5: normalizeTokens returns pairwise distinct amounts in first-seen
\* order: of the tokens with one and the same corrected value the first is
\* recorded with success true and every later one with success false and
\* reason 'duplicate'; normalize(['l200','1200']) gives [1200].
C5_DistinctFirstSeen ==
    norm.result # NotRun =>
        LET r == norm.result
            n == Len(norm.tokens)
            parsed == [i \in 1..n |-> parseNumeric(norm.tokens[i])]
            SeenBefore(i) == \E j \in 1..(i - 1) : parsed[j] # Null /\ parsed[j].value = parsed[i].value
        IN  /\ \A i, j \in 1..Len(r.normalized_amounts) : i # j => r.normalized_amounts[i] # r.normalized_amounts[j]
            /\ Len(r.details) = n
            /\ \A i \in 1..n : parsed[i] # Null =>
                   /\ r.details[i].value = parsed[i].value
                   /\ IF SeenBefore(i)
                      THEN ~r.details[i].success /\ r.details[i].reason = "duplicate"
                      ELSE r.details[i].success
            /\ r.normalized_amounts = SuccessValues(r.details)
            /\ norm.tokens = <<Chars("l200"), Chars("1200")>> => r.normalized_amounts = <<120000>>

\* normalize(['l200','1200']) has returned, the second token a duplicate
C5_Witness ==
    /\ norm.tokens = <<Chars("l200"), Chars("1200")>>
    /\ norm.result # NotRun
    /\ norm.result.normalized_amounts = <<120000>>
    /\ norm.result.details[2].reason = "duplicate"

\* C6: a token containing '%' never yields a normalized amount, and when no
\* token of the batch normalizes the confidence is 0; normalize(['10%'])
\* gives no amount and confidence 0.
C6_PercentNeverNormalizes ==
    norm.result # NotRun =>
        LET r == norm.result
        IN  /\ \A i \in 1..Len(norm.tokens) : includes(norm.tokens[i], <<"%">>) => ~r.details[i].success
            /\ r.normalized_amounts = <<>> => r.normalization_confidence = 0
            /\ norm.tokens = <<Chars("10%")>> => r.normalized_amounts = <<>> /\ r.normalization_confidence = 0

\* normalize(['10%']) has returned
C6_Witness ==
    /\ norm.tokens = <<Chars("10%")>>
    /\ norm.result # NotRun
    /\ norm.result.normalized_amounts = <<>>
    /\ norm.result.normalization_confidence = 0

\* C7: normalize(['l200','1O00','2OO','10%']) returns [1200, 1000, 200],
\* and a token made of digits and the letters l, I and O, with a digit
\* among them, normalizes to the number read after every l and I is
\* replaced by 1 and every O by 0.
C7_LookAlikesCorrected ==
    norm.result # NotRun =>
        /\ norm.tokens = LookAlikeTokens => norm.result.normalized_amounts = <<120000, 100000, 20000>>
        /\ \A i \in 1..Len(norm.tokens) :
               LET token == norm.tokens[i]
                   replaced == ReplaceChars(ReplaceChars(token, {"l", "I"}, "1"), {"O"}, "0")
               IN  (Len(norm.tokens) = 1
                    /\ (\A k \in 1..Len(token) : token[k] \in Digits \cup {"l", "I", "O"})
                    /\ (\E k \in 1..Len(token) : token[k] \in Digits)
                    /\ DigitsValue(replaced) > 0)
                   => norm.result.normalized_amounts = <<100 * DigitsValue(replaced)>>

(***************************************************************************)
(* Properties of classifyAmounts                                           *)
(***************************************************************************)
\* the call of "Test 4: Classification with context", as documented
ContextText == Chars("Total: 5000\nPaid: 3000\nDue: 2000")

\* the first snippet of the text a source was built from
SnippetIndex(snippets, source) ==
    CHOOSE k \in 1..Len(snippets) :
        /\ SourceText(snippets[k]) = source
        /\ \A m \in 1..(k - 1) : SourceText(snippets[m]) # source

\* C9: classifyAmounts keeps the order of the source: the returned amounts
\* come from snippets of the text, in the order of those snippets, and
\* classify('Total: 5000\nPaid: 3000\nDue: 2000', [5000, 3000, 2000])
\* returns total_bill 5000, paid 3000, due 2000 in that order, each with
\* confidence at least 0.5.
C9_SourceOrder ==
    cls.result # NotRun =>
        LET amounts == cls.result.amounts
            snippets == findContextSnippets(cls.text)
        IN  /\ \A i \in 1..Len(amounts) : \E k \in 1..Len(snippets) : SourceText(snippets[k]) = amounts[i].source
            /\ \A i, j \in 1..Len(amounts) :
                   i < j => SnippetIndex(snippets, amounts[i].source) <= SnippetIndex(snippets, amounts[j].source)
            /\ (cls.text = ContextText /\ cls.amounts = <<500000, 300000, 200000>>) =>
                   /\ TypedValues(amounts) = << <<"total_bill", 500000>>, <<"paid", 300000>>, <<"due", 200000>> >>
                   /\ \A i \in 1..Len(amounts) : amounts[i].confidence >= 30

\* the documented call has returned its three amounts
C9_Witness ==
    /\ cls.text = ContextText
    /\ cls.amounts = <<500000, 300000, 200000>>
    /\ cls.result # NotRun
    /\ Len(cls.result.amounts) = 3

\* C10: every value classifyAmounts returns is an element of
\* normalizedAmounts, hence within the tolerance 0.01 of one, and its type is
\* one of the seven built-in types.
C10_ValuesFromNormalized ==
    cls.result # NotRun =>
        \A i \in 1..Len(cls.result.amounts) :
            /\ \E j \in 1..Len(cls.amounts) :
                   /\ Abs(cls.result.amounts[i].value - cls.amounts[j]) < 1
                   /\ cls.result.amounts[i].value = cls.amounts[j]
            /\ cls.result.amounts[i].type \in {"total_bill", "paid", "due", "subtotal", "tax", "discount", "service_charge"}

\* a call whose text holds a labelled value that is not among the
\* normalized amounts, next to one that is
C10_Witness ==
    /\ cls.text = Chars("Total: 5000 | Due: 2OO")
    /\ cls.amounts = <<500000>>
    /\ cls.result # NotRun
    /\ TypedValues(cls.result.amounts) = << <<"total_bill", 500000>> >>

(***************************************************************************)
(* Properties of classifyAmounts, continued                                *)
(***************************************************************************)
\* the snippet passes every check of classifyAmounts for the pair
YieldsPair(snippet, normalizedAmounts, type, value) ==
    LET classification == matchSnippetToType(snippet)
        values == extractAmountsFromSnippet(snippet)
    IN  /\ classification # Null
        /\ classification.type = type
        /\ classification.confidence > 30
        /\ \E k \in 1..Len(values) : \E n \in 1..Len(normalizedAmounts) :
               /\ normalizedAmounts[n] = value
               /\ value # 0
               /\ Abs(value - values[k]) < 1
               /\ \A n2 \in 1..(n - 1) : Abs(normalizedAmounts[n2] - values[k]) >= 1

\* C11: the amounts a classifyAmounts call returns hold at most one entry
\* per (type, value) pair, and the entry of a pair carries the provenance of
\* the first snippet that yields the pair: later snippets add nothing.
C11_OnePerPair ==
    cls.result # NotRun =>
        LET amounts == cls.result.amounts
            snippets == findContextSnippets(cls.text)
        IN  /\ \A i, j \in 1..Len(amounts) :
                   i # j => ~(amounts[i].type = amounts[j].type /\ amounts[i].value = amounts[j].value)
            /\ \A i \in 1..Len(amounts) : \E s \in 1..Len(snippets) :
                   /\ YieldsPair(snippets[s], cls.amounts, amounts[i].type, amounts[i].value)
                   /\ \A s2 \in 1..(s - 1) : ~YieldsPair(snippets[s2], cls.amounts, amounts[i].type, amounts[i].value)
                   /\ amounts[i].source = SourceText(snippets[s])

\* 'Due: 2OO' and 'Balance: 200' both yield (due, 200): one entry, from the
\* first of the two
C11_Witness ==
    /\ cls.result # NotRun
    /\ cls.text = Chars("T0tal: Rs l200 | Pald: 1O00 | Due: 2OO | Balance: 200")
    /\ cls.amounts = <<20000>>
    /\ TypedValues(cls.result.amounts) = << <<"due", 20000>> >>
    /\ cls.result.amounts[1].source = SourceText(Chars("Due: 2OO"))

(***************************************************************************)
(* Properties of validateClassification                                    *)
(***************************************************************************)
\* the values the amounts hold for a type
ValuesOf(amounts, type) == {amounts[i].value : i \in {k \in 1..Len(amounts) : amounts[k].type = type}}

\* the issues validateClassification reported of one kind
IssuesOf(result, kind) == {i \in 1..Len(result.issues) : result.issues[i].issue = kind}

\* the first value the amounts hold for a type
FirstOf(amounts, type) == amounts[CHOOSE i \in 1..Len(amounts) : amounts[i].type = type /\ \A j \in 1..(i - 1) : amounts[j].type # type].value

\* C12: validateClassification reports an inconsistency exactly when
\* total_bill, paid and due are all present and total - paid differs from
\* the largest due value by more than 1; a reported inconsistency makes the
\* result invalid.
C12_InconsistencyReported ==
    cls.result # NotRun =>
        LET dues == ValuesOf(cls.amounts, "due")
            present == \A t \in {"total_bill", "paid", "due"} : ValuesOf(cls.amounts, t) # {}
            largest == CHOOSE d \in dues : \A d2 \in dues : d2 <= d
            reported == IssuesOf(cls.result, "inconsistent") # {}
        IN  /\ reported <=> (present /\ Abs((FirstOf(cls.amounts, "total_bill") - FirstOf(cls.amounts, "paid")) - largest) > 100)
            /\ reported => ~cls.result.valid

\* total 2000, paid 1500, due 600 is reported
C12_Witness ==
    /\ cls.result # NotRun
    /\ cls.amounts = <<[type |-> "total_bill", value |-> 200000], [type |-> "paid", value |-> 150000], [type |-> "due", value |-> 60000]>>
    /\ ~cls.result.valid
    /\ IssuesOf(cls.result, "inconsistent") # {}

MultipleCurrenciesText == Chars("Total: $100 | Paid: €80 | Due: £20")

\* C14: the currency hint of an extraction is the code, among INR, USD, EUR
\* and GBP, whose pattern has the most matches in the whole text, the first
\* in the scan order INR, USD, EUR, GBP among those with the most, and USD
\* when no pattern matches; it depends on the text alone.
C14_CurrencyByCount ==
    (ocrResult # NotRun /\ ocrResult.extracted_text # <<>>) =>
        LET codes == <<"INR", "USD", "EUR", "GBP">>
            counts == CurrencyCounts(ocrResult.extracted_text)
        IN  /\ \E h \in 1..4 : ocrResult.currency_hint = codes[h]
            /\ (\A h \in 1..4 : counts[h] = 0) => ocrResult.currency_hint = "USD"
            /\ (\E h \in 1..4 : counts[h] > 0) =>
                   \E h \in 1..4 : /\ ocrResult.currency_hint = codes[h]
                                   /\ \A g \in 1..4 : counts[g] <= counts[h]
                                   /\ \A g \in 1..(h - 1) : counts[g] < counts[h]
            /\ ocrResult.extracted_text = MultipleCurrenciesText => ocrResult.currency_hint = "USD"
            /\ ocrResult.extracted_text = Chars("Total: Rs 500 | Paid: $20 | Due: $30") => ocrResult.currency_hint = "USD"
            /\ ocrResult.extracted_text = Chars("Total: 90 euros | Paid: £20 | Due: 70 GBP") => ocrResult.currency_hint = "GBP"
            /\ ocrResult.extracted_text = Chars("Total: 5000\nPaid: 3000\nDue: 2000") => ocrResult.currency_hint = "USD"

\* one match each for USD, EUR and GBP: the tie goes to USD, also on a
\* server whose exclude patterns are no longer fresh
C14_Witness ==
    /\ ocrResult # NotRun
    /\ ocrResult.extracted_text = MultipleCurrenciesText
    /\ CurrencyCounts(MultipleCurrenciesText) = <<0, 1, 1, 1>>
    /\ ocrResult.currency_hint = "USD"

(***************************************************************************)
(* Properties of the collaborators                                         *)
(***************************************************************************)
\* C15: when the LLM call of a pipeline run fails, the request fails: its
\* response is an error, never an 'ok' result, and the call is made once.
C15_LlmFailureFatal ==
    (pc = "done" /\ calls.llmFailed) => (response.status = "http_error" /\ calls.llm = 1)

\* C16: when the OCR call of a run with an image fails, the request ends in
\* the error response of the error handler; the OCR engine was invoked
\* exactly once, and extraction, normalization and classification did not
\* run, so there is no pipeline result, neither 'ok' nor a guardrail.
C16_OcrFailureFatal ==
    /\ calls.ocr <= 1
    /\ calls.ocrFailed =>
           /\ pc = "done"
           /\ req.image
           /\ response = [status |-> "http_error", http |-> 500, error |-> "ocr_error"]
           /\ calls.ocr = 1
           /\ calls.extract = 0 /\ calls.normalize = 0 /\ calls.classify = 0 /\ calls.llm = 0
           /\ ocrResult = NotRun /\ normalizedResult = NotRun /\ classifiedResult = NotRun /\ finalOutput = NotRun

\* a failed OCR call of a /final request that also carried a text with amounts
C16_Witness ==
    /\ pc = "done"
    /\ calls.ocrFailed
    /\ req.endpoint = "final"
    /\ req.text = Chars("Paid: 3000")
    /\ response.status = "http_error"

\* C17: without a credential the validator is never called and an 'ok'
\* result carries no validation block; with or without it, and whatever the
\* validator answers, the currency, amounts, status and metadata of an 'ok'
\* result are those the three stages computed.
C17_LlmChangesNothing ==
    /\ ~llmEnabled => (calls.llm = 0 /\ pc # "await_llm" /\ "llm_validation" \notin DOMAIN response)
    /\ (pc = "done" /\ response.status = "ok") =>
           LET core == BuildFinalOutput(ocrResult, normalizedResult, classifiedResult)
           IN  /\ response.currency = core.currency
               /\ response.amounts = core.amounts
               /\ response.status = core.status
               /\ response.metadata = core.metadata
               /\ DOMAIN response \subseteq DOMAIN core \cup {"llm_validation"}

\* the validator was called and rejected a result with amounts
C17_Witness ==
    /\ llmEnabled
    /\ pc = "done"
    /\ response.status = "ok"
    /\ calls.llm = 1
    /\ "llm_validation" \in DOMAIN response
    /\ ~response.llm_validation.valid
    /\ response.amounts # <<>>

(***************************************************************************)
(* Properties of the Token Extractor                                       *)
(***************************************************************************)
ClearLabelsText == Chars("Total: INR 1200 | Paid: 1000 | Due: 200 | Discount: 10%")

\* C18: for a monetary segment '<label>: INR <digits>' the digit run after
\* the currency code is returned as a raw token: the extraction of 'Total:
\* INR 1200 | Paid: 1000 | Due: 200 | Discount: 10%' returns the tokens of
\* 1200, 1000 and 200, in that order, and the currency hint INR.
C18_ClearLabelsExample ==
    (ocrResult # NotRun /\ ocrResult.extracted_text = ClearLabelsText) =>
        /\ ocrResult.raw_tokens = <<Chars("1200"), Chars("1000"), Chars("200")>>
        /\ ocrResult.currency_hint = "INR"

(***************************************************************************)
(* Properties of matchSnippetToType                                        *)
(***************************************************************************)
ComplexBillText == Chars("Consultation: Rs 500\nLab Tests: Rs 1500\nSubtotal: Rs 2000\nGST @18%: Rs 360\nTotal: Rs 2360\nPaid: Rs 2000\nDue: Rs 360")

\* C19: a snippet labelled 'Subtotal' with an amount is classified as
\* subtotal, so the seven amounts of the complex medical bill are classified
\* as service_charge, service_charge, subtotal, tax, total_bill, paid, due.
C19_SubtotalExample ==
    (cls.result # NotRun /\ cls.text = ComplexBillText) =>
        /\ matchSnippetToType(Chars("Subtotal: Rs 2000")).type = "subtotal"
        /\ TypedValues(cls.result.amounts) =
               << <<"service_charge", 50000>>, <<"service_charge", 150000>>, <<"subtotal", 200000>>, <<"tax", 36000>>,
                  <<"total_bill", 236000>>, <<"paid", 200000>>, <<"due", 36000>> >>

(***************************************************************************)
(* Properties of the Normalizer, continued                                 *)
(***************************************************************************)
HasDigit(token) == \E i \in 1..Len(token) : token[i] \in Digits

\* C20: a token without any digit character is never read as a number:
\* fixOcrDigits returns the empty string for it, parseNumeric returns null
\* and normalizeTokens records it as a failure that adds no amount; and
\* fixOcrDigits('l2O0') is '1200'.
C20_NoDigitNoNumber ==
    norm.result # NotRun =>
        /\ \A i \in 1..Len(norm.tokens) :
               ~HasDigit(norm.tokens[i]) =>
                   /\ fixOcrDigits(norm.tokens[i]) = <<>>
                   /\ parseNumeric(norm.tokens[i]) = Null
                   /\ norm.result.details[i].original = norm.tokens[i]
                   /\ ~norm.result.details[i].success
                   /\ norm.result.details[i].value = NaN
        /\ (\A i \in 1..Len(norm.tokens) : ~HasDigit(norm.tokens[i])) => norm.result.normalized_amounts = <<>>
        /\ Len(norm.result.normalized_amounts) <= Cardinality({i \in 1..Len(norm.tokens) : HasDigit(norm.tokens[i])})
        /\ fixOcrDigits(Chars("l2O0")) = Chars("1200")

\* 'Hello' fails although l and o are look-alike letters, 'l2O0' is read as 1200
C20_Witness ==
    /\ norm.result # NotRun
    /\ norm.tokens = <<Chars("Hello"), Chars("l2O0")>>
    /\ ~norm.result.details[1].success
    /\ norm.result.details[1].normalized = <<>>
    /\ norm.result.normalized_amounts = <<120000>>

(***************************************************************************)
(* Properties of the pipeline, continued                                   *)
(***************************************************************************)
\* C21: consistency issues are advisory: a pipeline run whose classified
\* amounts hold an issue validateClassification detects still ends with its
\* 'ok' result, and the result carries the issues.
C21_IssuesReported ==
    (pc = "done" /\ classifiedResult # NotRun /\ ~validateClassification(classifiedResult.amounts).valid) =>
        /\ response.status = "ok"
        /\ "issues" \in DOMAIN response
        /\ response.issues = validateClassification(classifiedResult.amounts).issues

(***************************************************************************)
(* Properties of the Token Extractor, continued                            *)
(***************************************************************************)
\* the segment matches one of the exclusion patterns
MatchesExclusion(segment) == \E p \in 1..NumExclude : Test(excludePatterns[p], segment)

\* C22: within one extraction, started on a service whose patterns are
\* fresh, every segment that matches an exclusion pattern contributes no
\* token, however many earlier segments matched the same pattern: the tokens
\* are those of the segments that match no exclusion pattern.
C22_ExcludedSegmentsSilent ==
    [][(lastIndex = FreshLastIndex /\ ocrResult = NotRun /\ ocrResult' # NotRun) =>
           ocrResult'.raw_tokens =
               ExtractFromSegments(SelectSeq(SplitSegments(ocrResult'.extracted_text), LAMBDA segment : ~MatchesExclusion(segment)),
                                   <<>>, {}, FreshLastIndex).tokens]_vars

(***************************************************************************)
(* Properties of matchSnippetToType, continued                             *)
(***************************************************************************)
\* priority * 2 if a pattern of the rule matches, plus priority for every
\* keyword of the rule the lowercased snippet contains
ScoreOf(r, snippet) ==
    LET rule == classificationRules[r]
    IN  (IF \E p \in 1..Len(rule.patterns) : Test(rule.patterns[p], snippet) THEN rule.priority * 2 ELSE 0)
        + rule.priority * Cardinality({k \in 1..Len(rule.keywords) : includes(toLowerCase(snippet), toLowerCase(rule.keywords[k]))})

\* C23: matchSnippetToType returns the rule with the highest score, the one
\* declared first among those with the highest score, with the score
\* priority * 2 for a matching pattern (once) plus priority per contained
\* keyword and the confidence min(0.95, 0.5 + score / 30); it returns no
\* match exactly when every rule scores zero.
C23_HighestScoreFirstDeclared ==
    cls.result # NotRun =>
        LET snippets == findContextSnippets(cls.text)
            rules == 1..Len(classificationRules)
        IN  /\ [r \in rules |-> classificationRules[r].type] =
                   <<"total_bill", "paid", "due", "subtotal", "tax", "discount", "service_charge">>
            /\ \A s \in 1..Len(snippets) :
                   LET match == matchSnippetToType(snippets[s])
                   IN  /\ (match = Null) <=> (\A r \in rules : ScoreOf(r, snippets[s]) = 0)
                       /\ match # Null =>
                              \E r \in rules :
                                  /\ match.type = classificationRules[r].type
                                  /\ match.score = ScoreOf(r, snippets[s])
                                  /\ \A g \in rules : ScoreOf(g, snippets[s]) <= ScoreOf(r, snippets[s])
                                  /\ \A g \in 1..(r - 1) : ScoreOf(g, snippets[s]) < ScoreOf(r, snippets[s])
                                  /\ match.confidence = (IF 2 * match.score > 27 THEN 57 ELSE 30 + 2 * match.score)

\* paid and due both score 27 on 'Balance Paid: 200', tax and discount both
\* below that on 'Discount Tax: 20': the rule declared first is returned
C23_Witness ==
    /\ cls.result # NotRun
    /\ cls.text = Chars("Balance Paid: 200 | Discount Tax: 20")
    /\ ScoreOf(2, Chars("Balance Paid: 200")) = 27
    /\ ScoreOf(3, Chars("Balance Paid: 200")) = 27
    /\ TypedValues(cls.result.amounts)[1] = <<"paid", 20000>>

(***************************************************************************)
(* Properties of fixOcrDigits                                              *)
(***************************************************************************)
\* the correction map: l, L, I, i to 1; O, o, D to 0; S, s to 5; Z, z to 2;
\* B, b to 8; G, g to 6; T, t to 7
LetterDigit(c) ==
    IF c \in {"l", "L", "I", "i"} THEN "1"
    ELSE IF c \in {"O", "o", "D"} THEN "0"
    ELSE IF c \in {"S", "s"} THEN "5"
    ELSE IF c \in {"Z", "z"} THEN "2"
    ELSE IF c \in {"B", "b"} THEN "8"
    ELSE IF c \in {"G", "g"} THEN "6"
    ELSE IF c \in {"T", "t"} THEN "7"
    ELSE c

MapLetters == {"l", "L", "I", "i", "O", "o", "D", "S", "s", "Z", "z", "B", "b", "G", "g", "T", "t"}

\* the token with every map letter next to a digit replaced by its digit
\* and every other map letter dropped
RECURSIVE LettersCorrected(_, _)
LettersCorrected(token, i) ==
    IF i > Len(token) THEN <<>>
    ELSE (IF token[i] \in Digits THEN <<token[i]>>
          ELSE IF (i > 1 /\ token[i - 1] \in Digits) \/ (i < Len(token) /\ token[i + 1] \in Digits) THEN <<LetterDigit(token[i])>>
          ELSE <<>>)
         \o LettersCorrected(token, i + 1)

\* C24: fixOcrDigits replaces every letter of the correction map by its
\* digit when the character before or after it in the token is a digit and
\* drops it otherwise: '1S0' yields '150' and 'B5' yields '85'.
C24_MapLettersCorrected ==
    norm.result # NotRun =>
        \A i \in 1..Len(norm.tokens) :
            (\A k \in 1..Len(norm.tokens[i]) : norm.tokens[i][k] \in Digits \cup MapLetters) =>
                norm.result.details[i].normalized = LettersCorrected(norm.tokens[i], 1)

\* the first '.' kept as the decimal point, the digits after it concatenated
DotsCollapsed(token) ==
    LET dots == {k \in 1..Len(token) : token[k] = "."}
        first == CHOOSE k \in dots : \A k2 \in dots : k <= k2
    IN  IF dots = {} THEN token
        ELSE SubSeq(token, 1, first) \o SelectSeq(SubSeq(token, first + 1, Len(token)), LAMBDA c : c # ".")

\* C25: fixOcrDigits retains the decimal point of a token, a token with
\* more than one '.' keeping the first as the decimal point with the other
\* digit groups concatenated after it, and parseNumeric returns the value of
\* that string rounded to 2 decimal places: '12.50' gives 12.5.
C25_DecimalPointRetained ==
    norm.result # NotRun =>
        \A i \in 1..Len(norm.tokens) :
            (HasDigit(norm.tokens[i]) /\ \A k \in 1..Len(norm.tokens[i]) : norm.tokens[i][k] \in Digits \cup {"."}) =>
                /\ norm.result.details[i].normalized = DotsCollapsed(norm.tokens[i])
                /\ parseFloatCents(DotsCollapsed(norm.tokens[i])) >= 1 =>
                       norm.result.details[i].value = parseFloatCents(DotsCollapsed(norm.tokens[i]))
                /\ norm.tokens[i] = Chars("12.50") => norm.result.details[i].value = 1250

(***************************************************************************)
(* Properties relating the stages                                          *)
(***************************************************************************)
\* the corrected values, at least 1, the Extractor's scan derives from a segment
ScanValues(segment) ==
    LET captures == MatchAllGroup(ExtractPrefix, NumeralGroup, segment, 0)
        kept == {k \in 1..Len(captures) : KeepsToken(trim(captures[k]), ExtractorNormalized(trim(captures[k])), {})}
    IN  {parseFloatCents(ExtractorNormalized(trim(captures[k]))) : k \in kept}

\* C26: for every snippet, the candidate values extractAmountsFromSnippet
\* derives are the corrected values the Extractor's scan derives from the
\* same segment: no value is found by one stage and missed by the other.
C26_SameCandidates ==
    cls.result # NotRun =>
        LET snippets == findContextSnippets(cls.text)
        IN  \A s \in 1..Len(snippets) :
                LET values == extractAmountsFromSnippet(snippets[s])
                IN  {values[k] : k \in 1..Len(values)} = ScanValues(snippets[s])

\* C27: normalizeTokens gives one detail per token, in order; a failed token
\* containing '%' has reason 'percentage', any other unparseable token has
\* reason 'invalid_format', and a token whose value was seen has 'duplicate'.
C27_FailureReasons ==
    norm.result # NotRun =>
        /\ Len(norm.result.details) = Len(norm.tokens)
        /\ \A i \in 1..Len(norm.tokens) :
               LET detail == norm.result.details[i]
                   parsed == parseNumeric(norm.tokens[i])
                   earlier == {norm.result.details[k].value : k \in {j \in 1..(i - 1) : norm.result.details[j].success}}
               IN  /\ detail.original = norm.tokens[i]
                   /\ (\E k \in 1..Len(norm.tokens[i]) : norm.tokens[i][k] = "%") =>
                          ~detail.success /\ detail.reason = "percentage"
                   /\ (parsed = Null /\ \A k \in 1..Len(norm.tokens[i]) : norm.tokens[i][k] # "%") =>
                          ~detail.success /\ detail.reason = "invalid_format"
                   /\ (parsed # Null /\ parsed.value \in earlier) =>
                          ~detail.success /\ detail.reason = "duplicate"

\* C28: in every classifyAmounts call each normalized value is assigned to
\* at most one classified amount, so there are never more classified amounts
\* than normalized amounts.
C28_ValueAssignedOnce ==
    cls.result # NotRun =>
        /\ \A i, j \in 1..Len(cls.result.amounts) :
               cls.result.amounts[i].value = cls.result.amounts[j].value => i = j
        /\ Len(cls.result.amounts) <= Len(cls.amounts)

\* C29: every non-null result of matchSnippetToType has score >= 5 and
\* confidence above 0.5, so the low-confidence discard never fires: every
\* candidate of a snippet that matches a normalized amount, the snippet
\* matching a rule, has its (type, value) pair among the returned amounts.
C29_DiscardNeverFires ==
    cls.result # NotRun =>
        LET snippets == findContextSnippets(cls.text)
        IN  \A s \in 1..Len(snippets) :
                LET classification == matchSnippetToType(snippets[s])
                    values == extractAmountsFromSnippet(snippets[s])
                IN  classification # Null =>
                        /\ classification.score >= 5
                        /\ classification.confidence > 30
                        /\ (cls.amounts # <<>>) =>
                               \A k \in 1..Len(values) :
                                   MatchedAmount(cls.amounts, values[k]) \notin {Undefined, 0} =>
                                       AlreadyClassified(cls.result.amounts, classification.type, MatchedAmount(cls.amounts, values[k]))

\* 'Lab Tests: Rs 1500' matches one keyword of the rule of lowest priority:
\* score 5, confidence 0.5 + 5/30, and 1500 is recorded as service_charge
C29_Witness ==
    /\ cls.result # NotRun
    /\ cls.amounts = <<50000, 150000, 200000, 36000, 236000>>
    /\ matchSnippetToType(Chars("Lab Tests: Rs 1500")).score = 5
    /\ \E i \in 1..Len(cls.result.amounts) :
           /\ cls.result.amounts[i].source = SourceText(Chars("Lab Tests: Rs 1500"))
           /\ cls.result.amounts[i].type = "service_charge"
           /\ cls.result.amounts[i].value = 150000
           /\ cls.result.amounts[i].confidence = 40

\* C30: for every raw token the extraction returns, parseNumeric yields the
\* value the Extractor computed for the token when deduplicating; hence
\* every extracted token normalizes successfully or as a duplicate, and its
\* value is found among normalized_amounts.
C30_TokensNormalizeAsExtracted ==
    ocrResult # NotRun =>
        LET normalized == normalizeTokens(ocrResult.raw_tokens)
        IN  \A i \in 1..Len(ocrResult.raw_tokens) :
                LET parsed == parseNumeric(ocrResult.raw_tokens[i])
                    extracted == parseFloatCents(ExtractorNormalized(ocrResult.raw_tokens[i]))
                IN  /\ parsed # Null
                    /\ parsed.value = extracted
                    /\ normalized.details[i].success \/ normalized.details[i].reason = "duplicate"
                    /\ \E n \in 1..Len(normalized.normalized_amounts) : normalized.normalized_amounts[n] = extracted

====
